---------------------------- MODULE Spec2Model ----------------------------
(***************************************************************************)
(* A model of the RAG ingestion and retrieval pipeline:                    *)
(*   src/src/document_processor.py  sentence-aware overlapping chunker     *)
(*   src/src/embedding_service.py   batched embedding generation           *)
(*   src/src/endee_client.py        Endee client and VectorStore           *)
(*   src/src/rag_pipeline.py        RAGPipeline orchestration              *)
(* Python strings are TLA+ strings; str.split, str.strip, re.split and     *)
(* " ".join are computed character by character as Python computes them.   *)
(***************************************************************************)
EXTENDS Integers, Sequences, FiniteSets, TLC

VARIABLES
    chunk_size,      \* DocumentProcessor.chunk_size
    chunk_overlap,   \* DocumentProcessor.chunk_overlap
    document_data,   \* argument of the last split_text_into_chunks call
    chunks,          \* value returned by the last split_text_into_chunks call
    called,          \* TRUE once split_text_into_chunks has returned
    texts,           \* argument texts of generate_embeddings_batch
    batch_size,      \* argument batch_size of generate_embeddings_batch
    provider,        \* what the embedding provider does on the call of each batch
    embedded,        \* outcome of the last generate_embeddings_batch call
    initialized,     \* RAGPipeline.initialized
    vs_initialized,  \* VectorStore.initialized
    store,           \* the Endee server: its collections and stored vectors
    last,            \* the last call on the pipeline: arguments, outcome, requests
    confirmed,       \* ghost: an initialize() saw the store live and the collection there
    streak,          \* ghost: successful initialize() calls in a row on a live store
    threads          \* the initialize() calls in progress: position and locals of each

chunkerVars == <<chunk_size, chunk_overlap, document_data, chunks, called>>

embedderVars == <<texts, batch_size, provider, embedded>>

pipelineVars == <<initialized, vs_initialized, store, last, confirmed, streak>>

threadVars == <<threads>>

vars == <<chunkerVars, embedderVars, pipelineVars, threadVars>>

-----------------------------------------------------------------------------
(* Bounds of the model.                                                    *)

\* Longest document, in sentence fragments over all its pages.
MaxSents == 3
\* Most pages of a document.
MaxPages == 2
\* Most texts handed to generate_embeddings_batch.
MaxTexts == 3
\* Largest batch_size tried.
MaxBatchSize == 2
\* Length of an embedding vector: embedding_dimension (1536 or 3072 in the
\* code) scaled down.
EmbeddingDimension == 2

-----------------------------------------------------------------------------
(* Python string primitives.                                               *)

Char(s, i) == SubSeq(s, i, i)

Whitespace == {" ", "\n", "\t"}

\* The characters of the class [.!?] of _split_into_sentences.
Terminators == {".", "!", "?"}

\* The k-th smallest element of a finite set of integers.
Kth(S, k) == CHOOSE i \in S : Cardinality({j \in S : j < i}) = k - 1

NonWhitespace(s) == {i \in 1..Len(s) : Char(s, i) \notin Whitespace}

\* str.strip(): the text from its first to its last non-whitespace character.
strip(s) ==
    LET nw == NonWhitespace(s)
    IN  IF nw = {} THEN ""
        ELSE SubSeq(s, Kth(nw, 1), Kth(nw, Cardinality(nw)))

\* str.split(): the maximal runs of non-whitespace characters, in order.
split(s) ==
    LET nw == NonWhitespace(s)
        starts == {i \in nw : i - 1 \notin nw}
        ends == {i \in nw : i + 1 \notin nw}
    IN  [k \in 1..Cardinality(starts) |-> SubSeq(s, Kth(starts, k), Kth(ends, k))]

RECURSIVE join(_, _)
\* sep.join(seq)
join(sep, seq) ==
    IF seq = <<>> THEN ""
    ELSE IF Len(seq) = 1 THEN seq[1]
    ELSE seq[1] \o sep \o join(sep, Tail(seq))

\* re.split(r'[.!?]+', text): the pieces between maximal runs of terminators,
\* the empty pieces before a leading run and after a trailing run included.
re_split(text) ==
    LET t == {i \in 1..Len(text) : Char(text, i) \in Terminators}
        runStarts == {i \in t : i - 1 \notin t}
        runEnds == {i \in t : i + 1 \notin t}
        m == Cardinality(runStarts)
    IN  [k \in 1..(m + 1) |->
            LET from == IF k = 1 THEN 1 ELSE Kth(runEnds, k - 1) + 1
                to == IF k = m + 1 THEN Len(text) ELSE Kth(runStarts, k) - 1
            IN  IF from > to THEN "" ELSE SubSeq(text, from, to)]

\* seq[-n:] for n > 0
LastN(seq, n) ==
    IF n >= Len(seq) THEN seq ELSE SubSeq(seq, Len(seq) - n + 1, Len(seq))

-----------------------------------------------------------------------------
(* DocumentProcessor                                                       *)

\* The shortest sentence kept is one of more than this many characters.
MinSentenceChars == 10

RECURSIVE CleanFrom(_, _, _)
CleanFrom(pieces, i, acc) ==
    IF i > Len(pieces) THEN acc
    ELSE LET sentence == strip(pieces[i])
         IN  CleanFrom(pieces, i + 1,
                       IF sentence # "" /\ Len(sentence) > MinSentenceChars
                       THEN Append(acc, sentence) ELSE acc)

_split_into_sentences(text) == CleanFrom(re_split(text), 1, <<>>)

\* sentence_idx is a ghost field: the positions, in the page's sentence list,
\* of the sentences handed to _create_chunk (the code keeps only their count).
_create_chunk(chunk_id, text, page_num, doc_metadata, sentences, sentence_idx) ==
    [chunk_id |-> chunk_id,
     text |-> strip(text),
     metadata |-> [source |-> doc_metadata.source,
                   page |-> page_num,
                   chunk_index |-> chunk_id,
                   word_count |-> Len(split(text)),
                   sentence_count |-> Len(sentences),
                   extraction_method |-> doc_metadata.extraction_method],
     sentence_idx |-> sentence_idx]

\* A seed taken from the front of the closed buffer instead of its end.
OverlapSentences_FromFront(current_sentences, overlap) ==
    IF overlap >= Len(current_sentences) THEN current_sentences
    ELSE SubSeq(current_sentences, 1, overlap)

\* A seed of the closed buffer's oldest sentence alone.
OverlapSentences_Oldest(current_sentences, overlap) == <<current_sentences[1]>>

\* current_sentences[-overlap:], what the overlap branch seeds the next buffer
\* with.
OverlapSentences(current_sentences, overlap) == LastN(current_sentences, overlap)

\* Whether the buffer extended by the sentence is within the size limit.
FitsChunk(test_chunk, size) == Len(split(test_chunk)) <= size

\* One iteration of the loop over a page's sentences.  st holds the loop's
\* variables; k is the position of sentence in the page's sentence list.
SentenceStep(st, sentence, k, page_num, doc_metadata, size, overlap) ==
    LET test_chunk == IF st.current_chunk # ""
                      THEN st.current_chunk \o " " \o sentence
                      ELSE sentence
    IN  IF FitsChunk(test_chunk, size)
        THEN [st EXCEPT !.current_chunk = test_chunk,
                        !.current_sentences = Append(@, sentence),
                        !.current_idx = Append(@, k)]
        ELSE LET saved ==
                     IF st.current_chunk # ""
                     THEN [st EXCEPT
                             !.chunks = Append(@, _create_chunk(st.chunk_id,
                                            st.current_chunk, page_num, doc_metadata,
                                            st.current_sentences, st.current_idx)),
                             !.chunk_id = @ + 1]
                     ELSE st
             IN  IF overlap > 0 /\ st.current_sentences # <<>>
                 THEN LET overlap_sentences ==
                              OverlapSentences(st.current_sentences, overlap)
                          overlap_idx == OverlapSentences(st.current_idx, overlap)
                      IN  [saved EXCEPT
                             !.current_chunk =
                                 join(" ", overlap_sentences) \o " " \o sentence,
                             !.current_sentences = overlap_sentences \o <<sentence>>,
                             !.current_idx = overlap_idx \o <<k>>]
                 ELSE [saved EXCEPT !.current_chunk = sentence,
                                    !.current_sentences = <<sentence>>,
                                    !.current_idx = <<k>>]

RECURSIVE SentenceLoop(_, _, _, _, _, _, _)
SentenceLoop(st, sentences, k, page_num, doc_metadata, size, overlap) ==
    IF k > Len(sentences) THEN st
    ELSE SentenceLoop(SentenceStep(st, sentences[k], k, page_num, doc_metadata,
                                   size, overlap),
                      sentences, k + 1, page_num, doc_metadata, size, overlap)

\* A page loop that forgets the buffer left after the page's last sentence.
PageStep_NoFlush(acc, page_data, doc_metadata, size, overlap) ==
    LET sentences == _split_into_sentences(page_data.text)
        start == [chunks |-> acc.chunks, chunk_id |-> acc.chunk_id,
                  current_chunk |-> "", current_sentences |-> <<>>,
                  current_idx |-> <<>>]
        st == SentenceLoop(start, sentences, 1, page_data.page, doc_metadata,
                           size, overlap)
    IN  [chunks |-> st.chunks, chunk_id |-> st.chunk_id]

\* A page loop that numbers the chunks of every page from 0.
PageStep_RestartIds(acc, page_data, doc_metadata, size, overlap) ==
    LET sentences == _split_into_sentences(page_data.text)
        start == [chunks |-> acc.chunks, chunk_id |-> 0,
                  current_chunk |-> "", current_sentences |-> <<>>,
                  current_idx |-> <<>>]
        st == SentenceLoop(start, sentences, 1, page_data.page, doc_metadata,
                           size, overlap)
    IN  IF st.current_chunk # ""
        THEN [chunks |-> Append(st.chunks, _create_chunk(st.chunk_id,
                                   st.current_chunk, page_data.page, doc_metadata,
                                   st.current_sentences, st.current_idx)),
              chunk_id |-> st.chunk_id + 1]
        ELSE [chunks |-> st.chunks, chunk_id |-> st.chunk_id]

\* A page loop that spends a chunk id on a page that ends with an empty
\* buffer.
PageStep_CountEmptyPage(acc, page_data, doc_metadata, size, overlap) ==
    LET sentences == _split_into_sentences(page_data.text)
        start == [chunks |-> acc.chunks, chunk_id |-> acc.chunk_id,
                  current_chunk |-> "", current_sentences |-> <<>>,
                  current_idx |-> <<>>]
        st == SentenceLoop(start, sentences, 1, page_data.page, doc_metadata,
                           size, overlap)
    IN  IF st.current_chunk # ""
        THEN [chunks |-> Append(st.chunks, _create_chunk(st.chunk_id,
                                   st.current_chunk, page_data.page, doc_metadata,
                                   st.current_sentences, st.current_idx)),
              chunk_id |-> st.chunk_id + 1]
        ELSE [chunks |-> st.chunks, chunk_id |-> st.chunk_id + 1]

\* The body of the loop over pages: the buffer is reset, the page's sentences
\* are accumulated, and the last buffer is flushed.
PageStep(acc, page_data, doc_metadata, size, overlap) ==
    LET sentences == _split_into_sentences(page_data.text)
        start == [chunks |-> acc.chunks, chunk_id |-> acc.chunk_id,
                  current_chunk |-> "", current_sentences |-> <<>>,
                  current_idx |-> <<>>]
        st == SentenceLoop(start, sentences, 1, page_data.page, doc_metadata,
                           size, overlap)
    IN  IF st.current_chunk # ""
        THEN [chunks |-> Append(st.chunks, _create_chunk(st.chunk_id,
                                   st.current_chunk, page_data.page, doc_metadata,
                                   st.current_sentences, st.current_idx)),
              chunk_id |-> st.chunk_id + 1]
        ELSE [chunks |-> st.chunks, chunk_id |-> st.chunk_id]

RECURSIVE PageLoop(_, _, _, _, _)
PageLoop(acc, doc, p, size, overlap) ==
    IF p > Len(doc.content) THEN acc
    ELSE PageLoop(PageStep(acc, doc.content[p], doc.metadata, size, overlap),
                  doc, p + 1, size, overlap)

split_text_into_chunks(doc, size, overlap) ==
    PageLoop([chunks |-> <<>>, chunk_id |-> 0], doc, 1, size, overlap).chunks

-----------------------------------------------------------------------------
(* EmbeddingService                                                        *)

\* Word budget of _clean_text.
max_tokens == 8000

\* The truncation of _clean_text: the first max_tokens words when there are
\* more.
TruncateWords(cleaned, words) ==
    IF Len(words) > max_tokens
    THEN join(" ", SubSeq(words, 1, max_tokens))
    ELSE cleaned

Truncate(cleaned) == TruncateWords(cleaned, split(cleaned))

_clean_text(text) ==
    IF text = "" THEN "" ELSE Truncate(join(" ", split(text)))

\* [0.0] * self.embedding_dimension
ZeroVector == [d \in 1..EmbeddingDimension |-> 0]

\* The provider's vector for a text: never the zero vector, and different
\* for texts of different lengths.
ProviderVector(text) == [d \in 1..EmbeddingDimension |-> Len(text) + d]

\* What a call of client.embeddings.create can do: answer one item per input,
\* raise, or answer with the last item missing.
ProviderOutcomes == {"ok", "fail", "short"}

\* A call of client.embeddings.create: whether it raised, and response.data.
ProviderCall(valid_texts, outcome) ==
    [raised |-> outcome = "fail",
     data |-> IF outcome = "fail" THEN <<>>
              ELSE SubSeq([k \in 1..Len(valid_texts) |-> ProviderVector(valid_texts[k])],
                          1,
                          IF outcome = "short" THEN Len(valid_texts) - 1
                          ELSE Len(valid_texts))]

\* A filter that lets every text through.
ValidIndices_All(batch) == 1..Len(batch)

\* The positions of the batch whose cleaned text is not empty.
ValidIndices(batch) == {idx \in 1..Len(batch) : _clean_text(batch[idx]) # ""}

\* The cleaned texts at the valid positions, in order.
ValidTexts(batch, valid) ==
    [k \in 1..Cardinality(valid) |-> _clean_text(batch[Kth(valid, k)])]

\* A batch handler whose except clause re-raises.
ProcessBatchFailed_Reraise(batch, calls) ==
    [raised |-> TRUE, embeddings |-> <<>>, calls |-> calls]

\* The except clause of _process_batch: zero embeddings for the entire batch.
ProcessBatchFailed(batch, calls) ==
    [raised |-> FALSE,
     embeddings |-> [idx \in 1..Len(batch) |-> ZeroVector],
     calls |-> calls]

\* A reconstruction that appends the provider's items first and the zero
\* vectors of the filtered texts after them.
Reconstruct_Unordered(batch, valid, data) ==
    data \o [k \in 1..(Len(batch) - Cardinality(valid)) |-> ZeroVector]

\* The reconstruction loop of _process_batch, run when response.data holds an
\* item for every valid text: the k-th valid position takes the k-th item.
Reconstruct(batch, valid, data) ==
    [idx \in 1..Len(batch) |->
        IF idx \in valid
        THEN data[Cardinality({v \in valid : v <= idx})]
        ELSE ZeroVector]

\* _process_batch after the provider call: the except clause when the call
\* raised or next(valid_iter) raises StopIteration on a short answer.
BatchFromResponse(batch, valid, valid_texts, response) ==
    IF response.raised \/ Len(response.data) < Cardinality(valid)
    THEN ProcessBatchFailed(batch, <<valid_texts>>)
    ELSE [raised |-> FALSE,
          embeddings |-> Reconstruct(batch, valid, response.data),
          calls |-> <<valid_texts>>]

\* _process_batch after the filter: no provider call when no text is valid.
BatchFromValid(batch, outcome, valid, valid_texts) ==
    IF valid = {}
    THEN [raised |-> FALSE,
          embeddings |-> [idx \in 1..Len(batch) |-> ZeroVector],
          calls |-> <<>>]
    ELSE BatchFromResponse(batch, valid, valid_texts,
                           ProviderCall(valid_texts, outcome))

BatchFromIndices(batch, outcome, valid) ==
    BatchFromValid(batch, outcome, valid, ValidTexts(batch, valid))

\* _process_batch(texts): whether it raised, the embeddings returned, and the
\* inputs of the provider calls made (none or one).
_process_batch(batch, outcome) ==
    BatchFromIndices(batch, outcome, ValidIndices(batch))

\* texts[i:i + batch_size] for the b-th batch (b from 1).
BatchOf(all_texts, size, b) ==
    SubSeq(all_texts, (b - 1) * size + 1,
           IF b * size < Len(all_texts) THEN b * size ELSE Len(all_texts))

\* len(range(0, len(texts), batch_size))
NumBatches(all_texts, size) == (Len(all_texts) + size - 1) \div size

\* embeddings.extend(batch_embeddings); an exception leaving _process_batch
\* would leave the loop and the call.
BatchLoopStep(acc, r) ==
    IF acc.raised THEN acc
    ELSE IF r.raised
         THEN [acc EXCEPT !.raised = TRUE, !.calls = @ \o r.calls]
         ELSE [acc EXCEPT !.embeddings = @ \o r.embeddings,
                          !.calls = @ \o r.calls]

RECURSIVE BatchLoop(_, _, _, _, _)
BatchLoop(acc, all_texts, size, outcomes, b) ==
    IF b > NumBatches(all_texts, size) THEN acc
    ELSE BatchLoop(BatchLoopStep(acc, _process_batch(BatchOf(all_texts, size, b),
                                                     outcomes[b])),
                   all_texts, size, outcomes, b + 1)

\* generate_embeddings_batch(texts, batch_size): raised tells whether the call
\* raised, embeddings is the list returned, calls the provider inputs.
generate_embeddings_batch(all_texts, size, outcomes) ==
    BatchLoop([raised |-> FALSE, embeddings |-> <<>>, calls |-> <<>>],
              all_texts, size, outcomes, 1)

-----------------------------------------------------------------------------
(* EndeeClient.  The answer to each request is the server's (or the        *)
(* transport's) choice: an HTTP status, or "exc" when httpx raises.        *)

\* VectorStore.collection_name as RAGPipeline.__init__ sets it.
CollectionName == "documents"

HealthAnswers == {"200", "503", "exc"}

\* A probe that takes every answered request for a healthy store.
health_check_sync_AnyAnswer(answer) == answer # "exc"

\* A health check that reports every server as healthy.
health_check_sync_Always(answer) == TRUE

\* health_check_sync: True on status 200, False on any other status and on
\* an exception.
health_check_sync(answer) == answer = "200"

\* How POST /collections is treated: served (201 when the collection is
\* created, 409 when the name exists), rejected, or the transport raises.
CreateAnswers == {"serve", "500", "exc"}

\* The status of POST /collections {name, dimension, metric} as the client
\* sees it.
CreateStatus(st, name, answer) ==
    IF answer = "serve"
    THEN IF \E c \in st.collections : c.name = name THEN "409" ELSE "201"
    ELSE answer

\* The server after POST /collections.
StoreAfterCreate(st, name, dimension, answer) ==
    IF CreateStatus(st, name, answer) = "201"
    THEN [st EXCEPT !.collections =
              @ \cup {[name |-> name, dimension |-> dimension, metric |-> "cosine"]}]
    ELSE st

\* A client that takes every answered request for a success.
create_collection_sync_AnyStatus(status) == status # "exc"

\* A client that takes "already exists" for a failure.
create_collection_sync_ConflictFails(status) == status \in {"200", "201"}

\* create_collection_sync: True on 200, 201 and 409, False otherwise.
create_collection_sync(status) == status \in {"200", "201", "409"}

InsertAnswers == {"200", "500", "exc"}

\* A client that takes every answered request for a success.
insert_vectors_sync_AnyStatus(status) == status # "exc"

\* insert_vectors_sync: True on 200 and 201, False otherwise.
insert_vectors_sync(status) == status \in {"200", "201"}

\* The server after POST /collections/{name}/vectors: on success the entries
\* are stored under their ids.
StoreAfterInsert(st, vectors_data, status) ==
    IF status \in {"200", "201"}
    THEN [st EXCEPT !.vectors =
              {v \in @ : \A k \in 1..Len(vectors_data) : vectors_data[k].id # v.id}
              \cup {vectors_data[k] : k \in 1..Len(vectors_data)}]
    ELSE st

\* Most results in an answer to a search request.
MaxResults == 2

\* Similarity scores (scaled to integers) the server may report.
Scores == {2, 7}

\* Most results in an answer to a search request of the pipeline.
MaxPipelineResults == 1

\* The result lists a server may report: up to most stored entries, none of
\* them twice, in any order and with any scores.
ResultLists(st, most) ==
    {r \in UNION {[1..n -> {[id |-> v.id, score |-> sc, metadata |-> v.metadata] :
                               v \in st.vectors, sc \in Scores}] :
                   n \in 0..most} :
        \A i, j \in 1..Len(r) : r[i].id = r[j].id => i = j}

\* What the server may answer to POST /collections/{name}/search: a failure,
\* or status 200 with a list of stored entries and their scores.
SearchAnswers(st, most) ==
    {[status |-> "exc", results |-> <<>>], [status |-> "500", results |-> <<>>]}
    \cup {[status |-> "200", results |-> r] : r \in ResultLists(st, most)}

\* search_vectors_sync: results.get('results', []) on 200, [] otherwise.
search_vectors_sync(top_k, threshold, answer) ==
    IF answer.status = "200" THEN answer.results ELSE <<>>

ListAnswers == {"200", "500", "exc"}

\* list_collections_sync: the names on 200, [] otherwise.
list_collections_sync(st, answer) ==
    IF answer = "200" THEN {c.name : c \in st.collections} ELSE {}

-----------------------------------------------------------------------------
(* VectorStore                                                             *)

\* A VectorStore that never sets its flag.
VSFlagAfter_Never(flag, success) == flag

\* A VectorStore flag assigned the outcome of the call.
VSFlagAfter_Assign(flag, success) == success

\* if success: self.initialized = True
VSFlagAfter(flag, success) == IF success THEN TRUE ELSE flag

\* VectorStore.initialize(embedding_dimension): the value returned, the flag
\* and the server afterwards, and the requests made.
VSInitialize(flag, st, dimension, h, c) ==
    IF ~health_check_sync(h)
    THEN [success |-> FALSE, flag |-> flag, store |-> st,
          calls |-> <<"health">>, create_status |-> "none"]
    ELSE LET status == CreateStatus(st, CollectionName, c)
             success == create_collection_sync(status)
         IN  [success |-> success,
              flag |-> VSFlagAfter(flag, success),
              store |-> StoreAfterCreate(st, CollectionName, dimension, c),
              calls |-> <<"health", "create">>,
              create_status |-> status]

\* The entry store_document_chunks builds for a chunk; the id
\* f"{source}_{chunk_id}" is kept as the pair it is formatted from.
VectorData(chunk) ==
    [id |-> <<chunk.metadata.source, chunk.chunk_id>>,
     embedding |-> chunk.embedding,
     metadata |-> [source |-> chunk.metadata.source,
                   page |-> chunk.metadata.page,
                   chunk_index |-> chunk.metadata.chunk_index,
                   text |-> chunk.text,
                   embedding_model |-> chunk.embedding_model]]

\* The insert request of store_document_chunks and its outcome.
StoreVectors(st, vectors_data, ia) ==
    [success |-> insert_vectors_sync(ia),
     sent |-> <<vectors_data>>,
     store |-> StoreAfterInsert(st, vectors_data, ia)]

\* VectorStore.store_document_chunks: the value returned, the insert
\* requests sent and the server afterwards.
store_document_chunks(flag, st, chunks_with_embeddings, ia) ==
    IF ~flag
    THEN [success |-> FALSE, sent |-> <<>>, store |-> st]
    ELSE StoreVectors(st,
                      [k \in 1..Len(chunks_with_embeddings) |->
                          VectorData(chunks_with_embeddings[k])],
                      ia)

\* The formatted result of search_similar_chunks for one server result.
FormattedResult(result) ==
    [id |-> result.id, score |-> result.score, text |-> result.metadata.text,
     source |-> result.metadata.source, page |-> result.metadata.page,
     chunk_index |-> result.metadata.chunk_index, metadata |-> result.metadata]

FormattedResults(results) ==
    [k \in 1..Len(results) |-> FormattedResult(results[k])]

\* VectorStore.search_similar_chunks: the list returned and the requests made.
search_similar_chunks(flag, top_k, threshold, answer) ==
    IF ~flag THEN [results |-> <<>>, calls |-> <<>>]
    ELSE [results |-> FormattedResults(search_vectors_sync(top_k, threshold, answer)),
          calls |-> <<"search">>]

-----------------------------------------------------------------------------
(* The documents and settings the chunker is run on.                       *)

\* Sentence fragments with their terminators: a 3-word and a 5-word sentence
\* that pass the minimum-length filter, and a fragment that does not.
Pieces == <<"ML is great. ", " Deep learning is a subset?! ", "Too short. ">>

\* chunk_size values: below every sentence, one short sentence, one long
\* sentence, two short sentences, three short sentences.
ChunkSizes == {2, 3, 5, 6, 9}

\* Largest chunk_overlap tried (in sentences, as the code counts it).
MaxOverlap == 2

Overlaps == 0..MaxOverlap

DocMetadata == [source |-> "doc.pdf", extraction_method |-> "pdfplumber"]

RECURSIVE PageText(_, _, _, _)
\* The concatenation of the fragments f[i..] that g puts on page j.
PageText(f, g, j, i) ==
    IF i > Len(f) THEN ""
    ELSE (IF g[i] = j THEN Pieces[f[i]] ELSE "") \o PageText(f, g, j, i + 1)

\* The extractors store page_text.strip() with the 1-based page number.
MakeDoc(f, g, p) ==
    [content |-> [j \in 1..p |-> [page |-> j, text |-> strip(PageText(f, g, j, 1))]],
     metadata |-> DocMetadata]

GeneratedDocs ==
    UNION { UNION { { MakeDoc(f, g, p) :
                      g \in { h \in [1..n -> 1..p] :
                                \A i \in 1..n : \A k \in 1..n : i <= k => h[i] <= h[k] } } :
                    f \in [1..n -> 1..Len(Pieces)] } :
            <<n, p>> \in (0..MaxSents) \X (1..MaxPages) }

\* The one-page document of the worked example.
ScenarioDoc ==
    [content |-> <<[page |-> 1,
                   text |-> "ML is great. AI is powerful. Deep learning is a subset."]>>,
     metadata |-> DocMetadata]

Docs == GeneratedDocs \cup {ScenarioDoc}

-----------------------------------------------------------------------------
(* RAGPipeline                                                             *)

\* chunk_size and chunk_overlap of the pipeline's DocumentProcessor.
PipelineSettings ==
    {[chunk_size |-> 6, chunk_overlap |-> 1], [chunk_size |-> 3, chunk_overlap |-> 0]}

EmptyDoc == [content |-> <<>>, metadata |-> DocMetadata]

\* What the extractor yields: no page with text, a page without a sentence
\* long enough, the worked example.
PipelineDocs == {EmptyDoc, MakeDoc(<<3>>, <<1>>, 1), ScenarioDoc}

\* split_text_into_chunks on the documents the extractor yields, under the
\* pipeline's settings, computed once.
ChunkTable ==
    [d \in PipelineDocs |->
        [cfg \in PipelineSettings |->
            split_text_into_chunks(d, cfg.chunk_size, cfg.chunk_overlap)]]

\* self.document_processor.split_text_into_chunks(document_data)
ChunksOf(doc, size, overlap) ==
    ChunkTable[doc][[chunk_size |-> size, chunk_overlap |-> overlap]]

\* settings.openai_model
EmbeddingModel == "text-embedding-3-small"

\* batch_size default of generate_embeddings_batch, used by
\* generate_embeddings_for_chunks.
DefaultBatchSize == 100

\* response.data[0].embedding, or the exception of the call or of the index.
EmbeddingFromResponse(cleaned_text, response) ==
    IF response.raised \/ response.data = <<>>
    THEN [raised |-> TRUE, embedding |-> <<>>, calls |-> <<<<cleaned_text>>>>]
    ELSE [raised |-> FALSE, embedding |-> response.data[1],
          calls |-> <<<<cleaned_text>>>>]

\* A generate_embedding that sends every text to the provider.
EmbeddingOfCleaned_NoShortcut(cleaned_text, outcome) ==
    EmbeddingFromResponse(cleaned_text, ProviderCall(<<cleaned_text>>, outcome))

EmbeddingOfCleaned(cleaned_text, outcome) ==
    IF cleaned_text = ""
    THEN [raised |-> FALSE, embedding |-> ZeroVector, calls |-> <<>>]
    ELSE EmbeddingFromResponse(cleaned_text,
                               ProviderCall(<<cleaned_text>>, outcome))

\* generate_embedding(text): the zero vector for a text empty after cleaning,
\* without a provider call; else the first item of the provider's answer, any
\* exception re-raised.
generate_embedding(text, outcome) == EmbeddingOfCleaned(_clean_text(text), outcome)

\* The copy of a chunk that generate_embeddings_for_chunks returns.
EnrichedChunk(chunk, embedding) ==
    [chunk_id |-> chunk.chunk_id, text |-> chunk.text, metadata |-> chunk.metadata,
     sentence_idx |-> chunk.sentence_idx,
     embedding |-> embedding, embedding_model |-> EmbeddingModel,
     embedding_dimension |-> Len(embedding)]

\* An enrichment that leaves out the last chunk.
ZipChunks_DropLast(cs, r) ==
    [raised |-> r.raised,
     chunks |-> [k \in 1..(IF Len(r.embeddings) < Len(cs)
                           THEN Len(r.embeddings) - 1 ELSE Len(cs) - 1) |->
                    EnrichedChunk(cs[k], r.embeddings[k])],
     calls |-> r.calls]

\* zip(chunks, embeddings): as many copies as the shorter list has items.
ZipChunks(cs, r) ==
    [raised |-> r.raised,
     chunks |-> [k \in 1..(IF Len(r.embeddings) < Len(cs)
                           THEN Len(r.embeddings) ELSE Len(cs)) |->
                    EnrichedChunk(cs[k], r.embeddings[k])],
     calls |-> r.calls]

\* generate_embeddings_for_chunks(chunks)
generate_embeddings_for_chunks(cs, outcomes) ==
    ZipChunks(cs, generate_embeddings_batch([k \in 1..Len(cs) |-> cs[k].text],
                                            DefaultBatchSize, outcomes))

\* An enrichment that writes the three fields into the caller's chunk itself.
ChunkAfterCopy_Aliased(chunk, enriched_chunk) == enriched_chunk

\* The caller's chunk after one iteration of the enrichment loop:
\* enriched_chunk = chunk.copy() is a new dictionary and the three item
\* assignments go to it, so the chunk passed in keeps its items.
ChunkAfterCopy(chunk, enriched_chunk) == chunk

\* The caller's list after generate_embeddings_for_chunks returned enriched.
ChunksAfterEnrichment(cs, enriched) ==
    [k \in 1..Len(cs) |->
        IF k <= Len(enriched) THEN ChunkAfterCopy(cs[k], enriched[k]) ELSE cs[k]]

\* The record of a call on the pipeline.  op names the method, args its
\* arguments, was_initialized the flag when it was called; raised is "none" or
\* the exception that left the call, value what it returned; calls lists the
\* collaborators invoked in order, sent the insert requests, health and
\* create_status what the server answered.
NoCall ==
    [op |-> "none", args |-> <<>>, was_initialized |-> FALSE, raised |-> "none",
     value |-> <<>>, calls |-> <<>>, sent |-> <<>>, health |-> "none",
     create |-> "none", create_status |-> "none", provider |-> "none",
     insert |-> "none", answer |-> "none", list |-> "none"]

NotInitializedError == "RuntimeError: RAG pipeline not initialized"

\* A guard that lets every call through.
NotInitializedGuard_Missing(flag) == FALSE

\* A guard that tests the flag the wrong way round.
NotInitializedGuard_Inverted(flag) == flag

\* if not self.initialized: raise RuntimeError(...), before the try block of
\* process_pdf_file, process_pdf_bytes and search_documents.
NotInitializedGuard(flag) == ~flag

\* A pipeline flag assigned the outcome of the call.
PipelineFlagAfter_Assign(flag, success) == success

\* if success: self.initialized = True
PipelineFlagAfter(flag, success) == IF success THEN TRUE ELSE flag

IngestFailure(message) ==
    [success |-> FALSE, error |-> message, total_chunks |-> 0, chunks_stored |-> 0]

\* The end of the try block: the result after store_document_chunks.
IngestStored(cs, e, stored) ==
    [value |-> IF stored.success
               THEN [success |-> TRUE, error |-> "", total_chunks |-> Len(cs),
                     chunks_stored |-> Len(e.chunks)]
               ELSE IngestFailure("Failed to store chunks in vector database"),
     calls |-> <<"extract", "split", "embed", "store">>,
     sent |-> stored.sent,
     store |-> stored.store]

\* An ingestion that gives up when an embedding came back as the zero vector.
IngestEmbedded_AbortOnZero(flag, st, cs, e, ia) ==
    IF e.raised \/ \E k \in 1..Len(e.chunks) : e.chunks[k].embedding = ZeroVector
    THEN [value |-> IngestFailure("embedding raised"),
          calls |-> <<"extract", "split", "embed">>, sent |-> <<>>, store |-> st]
    ELSE IngestStored(cs, e, store_document_chunks(flag, st, e.chunks, ia))

\* Step 4, after generate_embeddings_for_chunks.
IngestEmbedded(flag, st, cs, e, ia) ==
    IF e.raised
    THEN [value |-> IngestFailure("embedding raised"),
          calls |-> <<"extract", "split", "embed">>, sent |-> <<>>, store |-> st]
    ELSE IngestStored(cs, e, store_document_chunks(flag, st, e.chunks, ia))

\* An ingestion without the test for an empty list of chunks.
IngestChunks_NoTest(flag, st, cs, o, ia) ==
    IngestEmbedded(flag, st, cs,
        generate_embeddings_for_chunks(cs,
            [b \in 1..NumBatches(cs, DefaultBatchSize) |-> o]),
        ia)

\* Step 3, after split_text_into_chunks.
IngestChunks(flag, st, cs, o, ia) ==
    IF cs = <<>>
    THEN [value |-> IngestFailure("No chunks created from document"),
          calls |-> <<"extract", "split">>, sent |-> <<>>, store |-> st]
    ELSE IngestEmbedded(flag, st, cs,
             generate_embeddings_for_chunks(cs,
                 [b \in 1..NumBatches(cs, DefaultBatchSize) |-> o]),
             ia)

\* The try block of process_pdf_file and process_pdf_bytes (they differ in
\* the extractor called): extraction, chunking, embedding, storage.  x is the
\* extractor's outcome, o the provider's, ia the answer to the insert request.
IngestBody(flag, st, size, overlap, x, o, ia) ==
    IF ~x.ok
    THEN [value |-> IngestFailure("Could not extract text from PDF"),
          calls |-> <<"extract">>, sent |-> <<>>, store |-> st]
    ELSE IF x.doc.content = <<>>
    THEN [value |-> IngestFailure("No text content extracted from PDF"),
          calls |-> <<"extract">>, sent |-> <<>>, store |-> st]
    ELSE IngestChunks(flag, st, ChunksOf(x.doc, size, overlap), o, ia)

\* The embedder's variables in a run that does not use the embedder.
IdleEmbedder ==
    /\ texts = <<>>
    /\ batch_size = 1
    /\ provider = <<>>
    /\ embedded = [raised |-> FALSE, embeddings |-> <<>>, calls |-> <<>>, done |-> FALSE]

\* The pipeline's variables in a run that does not use the pipeline.
IdlePipeline ==
    /\ initialized = FALSE
    /\ vs_initialized = FALSE
    /\ store = [collections |-> {}, vectors |-> {}]
    /\ last = NoCall
    /\ confirmed = FALSE
    /\ streak = 0

\* The callers of the interleaved initialize() calls.
Threads == {"A", "B"}

\* A caller that has not entered initialize(): success is the local of
\* VectorStore.initialize and of RAGPipeline.initialize, health and
\* create_status what the server answered, result the value returned.
NotCalling ==
    [pc |-> "start", success |-> FALSE, health |-> "none",
     create |-> "none", create_status |-> "none", result |-> FALSE]

\* No initialize() call is split into steps.
IdleThreads == threads = [t \in Threads |-> NotCalling]

\* The chunker's variables in a run that does not use the chunker.
IdleChunker ==
    /\ chunk_size = 1
    /\ chunk_overlap = 0
    /\ document_data = [content |-> <<>>, metadata |-> DocMetadata]
    /\ chunks = <<>>
    /\ called = FALSE

-----------------------------------------------------------------------------
(* The chunker run once on each document under each setting.               *)

InitChunker ==
    /\ chunk_size \in ChunkSizes
    /\ chunk_overlap \in Overlaps
    /\ document_data \in Docs
    /\ chunks = <<>>
    /\ called = FALSE
    /\ IdleEmbedder
    /\ IdlePipeline
    /\ IdleThreads

\* processor.split_text_into_chunks(document_data)
SplitTextIntoChunks ==
    /\ ~called
    /\ chunks' = split_text_into_chunks(document_data, chunk_size, chunk_overlap)
    /\ called' = TRUE
    /\ UNCHANGED <<chunk_size, chunk_overlap, document_data>>
    /\ UNCHANGED <<embedderVars, pipelineVars>>
    /\ UNCHANGED threadVars

NextChunker == SplitTextIntoChunks

SpecChunker == InitChunker /\ [][NextChunker]_vars

-----------------------------------------------------------------------------
(* The embedder run once on each list of texts under each provider         *)
(* behaviour.                                                              *)

\* Texts: empty, whitespace only, one word, two words with extra whitespace.
TextPool == {"", "  ", "alpha", " beta  gamma "}

TextLists == UNION {[1..n -> TextPool] : n \in 0..MaxTexts}

NotEmbedded == [raised |-> FALSE, embeddings |-> <<>>, calls |-> <<>>, done |-> FALSE]

InitEmbedder ==
    /\ texts \in TextLists
    /\ batch_size \in 1..MaxBatchSize
    /\ provider \in [1..NumBatches(texts, batch_size) -> ProviderOutcomes]
    /\ embedded = NotEmbedded
    /\ IdleChunker
    /\ IdlePipeline
    /\ IdleThreads

\* service.generate_embeddings_batch(texts, batch_size)
GenerateEmbeddingsBatch ==
    /\ ~embedded.done
    /\ LET r == generate_embeddings_batch(texts, batch_size, provider)
       IN  embedded' = [raised |-> r.raised, embeddings |-> r.embeddings,
                        calls |-> r.calls, done |-> TRUE]
    /\ UNCHANGED <<texts, batch_size, provider>>
    /\ UNCHANGED <<chunkerVars, pipelineVars>>
    /\ UNCHANGED threadVars

NextEmbedder == GenerateEmbeddingsBatch

SpecEmbedder == InitEmbedder /\ [][NextEmbedder]_vars

-----------------------------------------------------------------------------
(* generate_embedding run once on each text under each provider outcome.   *)

\* Most pieces in a text.
MaxPieces == 3

\* What the texts are put together from: a blank, a tab, a line break and a
\* word.
TextPieces == {" ", "\t", "\n", "ab"}

\* The texts of up to MaxPieces pieces: the empty text, whitespace-only
\* texts, and texts with words.
SingleTexts ==
    {join("", f) : f \in UNION {[1..n -> TextPieces] : n \in 0..MaxPieces}}

InitEmbedOne ==
    /\ texts \in {<<t>> : t \in SingleTexts}
    /\ batch_size = 1
    /\ provider \in [1..1 -> ProviderOutcomes]
    /\ embedded = NotEmbedded
    /\ IdleChunker
    /\ IdlePipeline
    /\ IdleThreads

\* service.generate_embedding(text)
GenerateEmbedding ==
    /\ last.op = "none"
    /\ LET r == generate_embedding(texts[1], provider[1])
       IN  last' = [NoCall EXCEPT !.op = "generate_embedding",
                                  !.args = texts,
                                  !.raised = IF r.raised THEN "provider" ELSE "none",
                                  !.value = r.embedding,
                                  !.calls = r.calls,
                                  !.provider = provider[1]]
    /\ UNCHANGED <<initialized, vs_initialized, store, confirmed, streak>>
    /\ UNCHANGED <<chunkerVars, embedderVars>>
    /\ UNCHANGED threadVars

NextEmbedOne == GenerateEmbedding

SpecEmbedOne == InitEmbedOne /\ [][NextEmbedOne]_vars

-----------------------------------------------------------------------------
(* generate_embeddings_for_chunks run once on each list of chunks under    *)
(* each provider behaviour.  chunks is the list the caller holds.          *)

\* Most chunks in a list.
MaxChunks == 3

\* The texts of the chunks: sentences the splitter keeps.
ChunkTexts == {"ML is great", "AI is powerful", "Deep learning is a subset"}

\* Lists of one-sentence chunks as _create_chunk builds them, numbered from 0.
ChunkLists ==
    {[k \in 1..Len(f) |->
         _create_chunk(k - 1, f[k], 1, DocMetadata, <<f[k]>>, <<k>>)] :
        f \in UNION {[1..n -> ChunkTexts] : n \in 0..MaxChunks}}

InitEnrich ==
    /\ chunks \in ChunkLists
    /\ chunk_size = 1
    /\ chunk_overlap = 0
    /\ document_data = [content |-> <<>>, metadata |-> DocMetadata]
    /\ called = FALSE
    /\ texts = <<>>
    /\ batch_size = DefaultBatchSize
    /\ provider \in [1..NumBatches(chunks, DefaultBatchSize) -> ProviderOutcomes]
    /\ embedded = NotEmbedded
    /\ IdlePipeline
    /\ IdleThreads

\* The record of the call and the caller's list after it.
EnrichCall(cs, outcomes, r) ==
    [chunks |-> ChunksAfterEnrichment(cs, r.chunks),
     last |-> [NoCall EXCEPT !.op = "generate_embeddings_for_chunks",
                             !.args = <<cs>>,
                             !.raised = IF r.raised THEN "provider" ELSE "none",
                             !.value = r.chunks,
                             !.calls = r.calls,
                             !.provider = IF outcomes = <<>> THEN "none"
                                          ELSE outcomes[1]]]

\* service.generate_embeddings_for_chunks(chunks)
GenerateEmbeddingsForChunks ==
    /\ last.op = "none"
    /\ LET c == EnrichCall(chunks, provider,
                           generate_embeddings_for_chunks(chunks, provider))
       IN  /\ chunks' = c.chunks
           /\ last' = c.last
    /\ UNCHANGED <<chunk_size, chunk_overlap, document_data, called>>
    /\ UNCHANGED <<initialized, vs_initialized, store, confirmed, streak>>
    /\ UNCHANGED embedderVars
    /\ UNCHANGED threadVars

NextEnrich == GenerateEmbeddingsForChunks

SpecEnrich == InitEnrich /\ [][NextEnrich]_vars

-----------------------------------------------------------------------------
(* The pipeline driven through initialize, ingest, search and status       *)
(* calls against a server that answers each request as it likes.           *)

\* The extractor raises, or returns a document.
ExtractOutcomes ==
    {[ok |-> FALSE, doc |-> EmptyDoc]} \cup {[ok |-> TRUE, doc |-> d] : d \in PipelineDocs}

Queries == {"", "alpha"}

TopKs == {0, 2}

\* threshold default of search_documents and search_similar_chunks
DefaultThreshold == 0

\* Similarity thresholds: the default, and one between the scores.
Thresholds == {DefaultThreshold, 5}

\* The server before the pipeline's first call: without the collection, or
\* with one of that name made earlier, of the same or of another dimension.
InitialStores ==
    {[collections |-> {}, vectors |-> {}]}
    \cup {[collections |-> {[name |-> CollectionName, dimension |-> d,
                             metric |-> "cosine"]},
           vectors |-> {}] : d \in {EmbeddingDimension, EmbeddingDimension + 1}}

\* RAGPipeline.__init__
InitPipeline ==
    /\ \E cfg \in PipelineSettings :
           /\ chunk_size = cfg.chunk_size
           /\ chunk_overlap = cfg.chunk_overlap
    /\ document_data = EmptyDoc
    /\ chunks = <<>>
    /\ called = FALSE
    /\ IdleEmbedder
    /\ initialized = FALSE
    /\ vs_initialized = FALSE
    /\ store \in InitialStores
    /\ last = NoCall
    /\ confirmed = FALSE
    /\ streak = 0
    /\ IdleThreads

\* pipeline.initialize()
Initialize ==
    \E h \in HealthAnswers, c \in CreateAnswers :
        LET r == VSInitialize(vs_initialized, store, EmbeddingDimension, h, c)
        IN  /\ vs_initialized' = r.flag
            /\ initialized' = PipelineFlagAfter(initialized, r.success)
            /\ store' = r.store
            /\ last' = [NoCall EXCEPT !.op = "initialize",
                                      !.was_initialized = initialized,
                                      !.value = r.success,
                                      !.calls = r.calls,
                                      !.health = h,
                                      !.create = c,
                                      !.create_status = r.create_status]
            /\ confirmed' = (confirmed \/ (h = "200"
                                /\ r.create_status \in {"200", "201", "409"}))
            /\ streak' = IF h = "200" /\ c = "serve"
                         THEN (IF streak < 2 THEN streak + 1 ELSE streak)
                         ELSE 0
            /\ UNCHANGED <<chunkerVars, embedderVars>>
            /\ UNCHANGED threadVars

\* process_pdf_file and process_pdf_bytes
ProcessPdf(op) ==
    /\ IF NotInitializedGuard(initialized)
       THEN /\ last' = [NoCall EXCEPT !.op = op,
                                      !.was_initialized = initialized,
                                      !.raised = NotInitializedError]
            /\ store' = store
       ELSE \E x \in ExtractOutcomes, o \in ProviderOutcomes, ia \in InsertAnswers :
                LET r == IngestBody(vs_initialized, store, chunk_size,
                                    chunk_overlap, x, o, ia)
                IN  /\ last' = [NoCall EXCEPT !.op = op,
                                              !.args = <<x>>,
                                              !.was_initialized = initialized,
                                              !.value = r.value,
                                              !.calls = r.calls,
                                              !.sent = r.sent,
                                              !.provider = o,
                                              !.insert = ia]
                    /\ store' = r.store
    /\ streak' = 0
    /\ UNCHANGED <<initialized, vs_initialized, confirmed>>
    /\ UNCHANGED <<chunkerVars, embedderVars>>
    /\ UNCHANGED threadVars

\* pipeline.process_pdf_file(file_path)
ProcessPdfFile == ProcessPdf("process_pdf_file")

\* pipeline.process_pdf_bytes(pdf_bytes, filename)
ProcessPdfBytes == ProcessPdf("process_pdf_bytes")

\* A try block whose except clause lets the embedder's exception through.
SearchBody_Propagate(flag, top_k, threshold, q, a) ==
    IF q.raised
    THEN [raised |-> "embedding raised", value |-> <<>>, calls |-> <<"embed">>]
    ELSE [raised |-> "none",
          value |-> search_similar_chunks(flag, top_k, threshold, a).results,
          calls |-> <<"embed">> \o search_similar_chunks(flag, top_k, threshold, a).calls]

\* The try block of search_documents: the query embedding, then the search;
\* an exception of either is caught and [] returned.
SearchBody(flag, top_k, threshold, q, a) ==
    IF q.raised
    THEN [raised |-> "none", value |-> <<>>, calls |-> <<"embed">>]
    ELSE [raised |-> "none",
          value |-> search_similar_chunks(flag, top_k, threshold, a).results,
          calls |-> <<"embed">> \o search_similar_chunks(flag, top_k, threshold, a).calls]

\* The record of a search_documents call that passed the guard.
SearchCall(flag, query, top_k, threshold, o, a, r) ==
    [NoCall EXCEPT !.op = "search_documents",
                   !.args = <<query, top_k, threshold>>,
                   !.was_initialized = flag,
                   !.raised = r.raised,
                   !.value = r.value,
                   !.calls = r.calls,
                   !.provider = o,
                   !.answer = a.status]

\* pipeline.search_documents(query, top_k), threshold left at its default
SearchDocuments ==
    /\ IF NotInitializedGuard(initialized)
       THEN last' = [NoCall EXCEPT !.op = "search_documents",
                                   !.was_initialized = initialized,
                                   !.raised = NotInitializedError]
       ELSE \E query \in Queries, top_k \in TopKs, o \in ProviderOutcomes,
               a \in SearchAnswers(store, MaxPipelineResults) :
                last' = SearchCall(initialized, query, top_k, DefaultThreshold, o, a,
                                   SearchBody(vs_initialized, top_k, DefaultThreshold,
                                              generate_embedding(query, o), a))
    /\ streak' = 0
    /\ UNCHANGED <<initialized, vs_initialized, store, confirmed>>
    /\ UNCHANGED <<chunkerVars, embedderVars>>
    /\ UNCHANGED threadVars

\* pipeline.get_pipeline_status()
GetPipelineStatus ==
    \E h \in HealthAnswers, l \in ListAnswers :
        LET endee_healthy == health_check_sync(h)
        IN  /\ last' = [NoCall EXCEPT
                          !.op = "get_pipeline_status",
                          !.was_initialized = initialized,
                          !.value = [initialized |-> initialized,
                                     endee_healthy |-> endee_healthy,
                                     has_available_collections |-> endee_healthy,
                                     available_collections |->
                                         IF endee_healthy
                                         THEN list_collections_sync(store, l)
                                         ELSE {}],
                          !.calls = IF endee_healthy THEN <<"health", "list">>
                                    ELSE <<"health">>,
                          !.health = h,
                          !.list = l]
            /\ streak' = 0
            /\ UNCHANGED <<initialized, vs_initialized, store, confirmed>>
            /\ UNCHANGED <<chunkerVars, embedderVars>>
            /\ UNCHANGED threadVars

Next ==
    \/ Initialize
    \/ ProcessPdfFile
    \/ ProcessPdfBytes
    \/ SearchDocuments
    \/ GetPipelineStatus

Spec == InitPipeline /\ [][Next]_vars

-----------------------------------------------------------------------------
(* The VectorStore alone, driven through initialize, store and search      *)
(* calls against a server that answers each request as it likes.           *)

\* Embeddings a caller may hand over: of the dimension the store was
\* initialized for, and one component longer.
ItemEmbeddings ==
    {[d \in 1..EmbeddingDimension |-> 1], [d \in 1..(EmbeddingDimension + 1) |-> 1]}

\* Most chunks in a store_document_chunks call.
MaxItems == 2

\* A chunk with its embedding, as generate_embeddings_for_chunks hands it on.
Item(chunk_id, embedding) ==
    EnrichedChunk(_create_chunk(chunk_id, "ML is great", 1, DocMetadata,
                                <<"ML is great">>, <<1>>),
                  embedding)

\* The lists of chunks handed to store_document_chunks: chunk_id k - 1 at
\* position k, each with one of the embeddings.
ItemLists ==
    UNION {{[k \in 1..n |-> Item(k - 1, f[k])] : f \in [1..n -> ItemEmbeddings]} :
           n \in 0..MaxItems}

InitStore ==
    /\ vs_initialized = FALSE
    /\ store \in InitialStores
    /\ last = NoCall
    /\ initialized = FALSE
    /\ confirmed = FALSE
    /\ streak = 0
    /\ IdleChunker
    /\ IdleEmbedder
    /\ IdleThreads

\* vector_store.initialize(embedding_dimension)
StoreInitialize ==
    \E h \in HealthAnswers, c \in CreateAnswers :
        LET r == VSInitialize(vs_initialized, store, EmbeddingDimension, h, c)
        IN  /\ vs_initialized' = r.flag
            /\ store' = r.store
            /\ last' = [NoCall EXCEPT !.op = "initialize",
                                      !.args = <<EmbeddingDimension>>,
                                      !.was_initialized = vs_initialized,
                                      !.value = r.success,
                                      !.calls = r.calls,
                                      !.health = h,
                                      !.create = c,
                                      !.create_status = r.create_status]
            /\ confirmed' = (confirmed \/ (h = "200"
                                /\ r.create_status \in {"200", "201", "409"}))
            /\ UNCHANGED <<initialized, streak>>
            /\ UNCHANGED <<chunkerVars, embedderVars>>
            /\ UNCHANGED threadVars

\* vector_store.store_document_chunks(chunks_with_embeddings)
StoreDocumentChunks ==
    \E items \in ItemLists, ia \in InsertAnswers :
        LET r == store_document_chunks(vs_initialized, store, items, ia)
        IN  /\ store' = r.store
            /\ last' = [NoCall EXCEPT !.op = "store_document_chunks",
                                      !.args = <<items>>,
                                      !.was_initialized = vs_initialized,
                                      !.value = r.success,
                                      !.sent = r.sent,
                                      !.insert = ia]
            /\ UNCHANGED <<vs_initialized, initialized, confirmed, streak>>
            /\ UNCHANGED <<chunkerVars, embedderVars>>
            /\ UNCHANGED threadVars

\* vector_store.search_similar_chunks(query_embedding, top_k, threshold)
SearchSimilarChunks ==
    \E top_k \in TopKs, threshold \in Thresholds, a \in SearchAnswers(store, MaxResults) :
        LET r == search_similar_chunks(vs_initialized, top_k, threshold, a)
        IN  /\ last' = [NoCall EXCEPT !.op = "search_similar_chunks",
                                      !.args = <<top_k, threshold>>,
                                      !.was_initialized = vs_initialized,
                                      !.value = r.results,
                                      !.calls = r.calls,
                                      !.answer = a.status]
            /\ UNCHANGED <<vs_initialized, store, initialized, confirmed, streak>>
            /\ UNCHANGED <<chunkerVars, embedderVars>>
            /\ UNCHANGED threadVars

NextStore ==
    \/ StoreInitialize
    \/ StoreDocumentChunks
    \/ SearchSimilarChunks

SpecStore == InitStore /\ [][NextStore]_vars

-----------------------------------------------------------------------------
(* Two initialize() calls on one pipeline, interleaved at the requests and *)
(* at the assignments to the two flags.  Each caller has its own locals;   *)
(* the flags and the server are shared.                                    *)

InitConcurrent ==
    /\ IdleChunker
    /\ IdleEmbedder
    /\ initialized = FALSE
    /\ vs_initialized = FALSE
    /\ store \in InitialStores
    /\ last = NoCall
    /\ confirmed = FALSE
    /\ streak = 0
    /\ IdleThreads

\* if not self.client.health_check_sync(): return False, which
\* RAGPipeline.initialize returns in turn without an assignment.
HealthCheckStep(t) ==
    /\ threads[t].pc = "start"
    /\ \E h \in HealthAnswers :
           threads' = [threads EXCEPT ![t] =
               IF health_check_sync(h)
               THEN [@ EXCEPT !.pc = "create", !.health = h]
               ELSE [@ EXCEPT !.pc = "done", !.health = h, !.result = FALSE]]
    /\ UNCHANGED <<chunkerVars, embedderVars, pipelineVars>>

\* success = self.client.create_collection_sync(self.collection_name, dim)
CreateCollectionStep(t) ==
    /\ threads[t].pc = "create"
    /\ \E c \in CreateAnswers :
           /\ threads' = [threads EXCEPT ![t] =
                  [@ EXCEPT !.pc = "vs_flag",
                            !.create = c,
                            !.create_status = CreateStatus(store, CollectionName, c),
                            !.success = create_collection_sync(
                                            CreateStatus(store, CollectionName, c))]]
           /\ store' = StoreAfterCreate(store, CollectionName, EmbeddingDimension, c)
    /\ UNCHANGED <<initialized, vs_initialized, last, confirmed, streak>>
    /\ UNCHANGED <<chunkerVars, embedderVars>>

\* VectorStore.initialize: if success: self.initialized = True; return success
StoreFlagStep(t) ==
    /\ threads[t].pc = "vs_flag"
    /\ vs_initialized' = VSFlagAfter(vs_initialized, threads[t].success)
    /\ threads' = [threads EXCEPT ![t].pc = "flag"]
    /\ UNCHANGED <<initialized, store, last, confirmed, streak>>
    /\ UNCHANGED <<chunkerVars, embedderVars>>

\* RAGPipeline.initialize: if success: self.initialized = True; return success
PipelineFlagStep(t) ==
    /\ threads[t].pc = "flag"
    /\ initialized' = PipelineFlagAfter(initialized, threads[t].success)
    /\ threads' = [threads EXCEPT ![t].pc = "done",
                                  ![t].result = threads[t].success]
    /\ UNCHANGED <<vs_initialized, store, last, confirmed, streak>>
    /\ UNCHANGED <<chunkerVars, embedderVars>>

NextConcurrent ==
    \E t \in Threads :
        \/ HealthCheckStep(t)
        \/ CreateCollectionStep(t)
        \/ StoreFlagStep(t)
        \/ PipelineFlagStep(t)

SpecConcurrent == InitConcurrent /\ [][NextConcurrent]_vars

-----------------------------------------------------------------------------
(* Properties of the chunker.                                              *)

WordCount(text) == Len(split(text))

\* Whether s occurs in text as a contiguous run of characters.
Contains(text, s) ==
    \E i \in 1..(Len(text) - Len(s) + 1) : SubSeq(text, i, i + Len(s) - 1) = s

Range(seq) == {seq[i] : i \in 1..Len(seq)}

\* The positions in chunks of the chunks of page page_num.
ChunksOfPage(page_num) ==
    {i \in 1..Len(chunks) : chunks[i].metadata.page = page_num}

\* The sentences the splitter keeps of page j of the document.
KeptSentences(j) == _split_into_sentences(document_data.content[j].text)

\* The sentences of page j at the positions idx, joined as a chunk text.
TextOf(j, idx) == join(" ", [n \in 1..Len(idx) |-> KeptSentences(j)[idx[n]]])

(* C1: every chunk returned by split_text_into_chunks has at most          *)
(* chunk_size words, unless it consists of exactly one sentence whose own  *)
(* word count exceeds chunk_size.                                          *)
C1_ChunkWithinSize ==
    called =>
        \A i \in 1..Len(chunks) :
            \/ WordCount(chunks[i].text) <= chunk_size
            \/ /\ chunks[i].metadata.sentence_count = 1
               /\ WordCount(chunks[i].text) > chunk_size

(* C2: no sentence is lost by chunking.  Every sentence the splitter keeps *)
(* of a page occurs whole in the text of a chunk of that page; every chunk *)
(* text is a run of the page's kept sentences in page order; and later     *)
(* chunks of a page start no earlier and end strictly later in the page.   *)
C2_NoSentenceLost ==
    called =>
        \A j \in 1..Len(document_data.content) :
            LET page_num == document_data.content[j].page
                mine == ChunksOfPage(page_num)
            IN  /\ \A k \in 1..Len(KeptSentences(j)) :
                       \E i \in mine :
                           /\ k \in Range(chunks[i].sentence_idx)
                           /\ Contains(chunks[i].text, KeptSentences(j)[k])
                /\ \A i \in mine :
                       LET idx == chunks[i].sentence_idx
                       IN  /\ idx # <<>>
                           /\ \A n \in 1..(Len(idx) - 1) : idx[n] < idx[n + 1]
                           /\ chunks[i].text = TextOf(j, idx)
                /\ \A i1 \in mine : \A i2 \in mine :
                       i1 < i2 =>
                           /\ chunks[i1].sentence_idx[1] <= chunks[i2].sentence_idx[1]
                           /\ chunks[i1].sentence_idx[Len(chunks[i1].sentence_idx)]
                                < chunks[i2].sentence_idx[Len(chunks[i2].sentence_idx)]

\* A page of three kept sentences was split, with overlap, into several chunks.
C2_Witness ==
    /\ called
    /\ chunk_overlap > 0
    /\ \E j \in 1..Len(document_data.content) :
           /\ Len(KeptSentences(j)) >= 3
           /\ Cardinality(ChunksOfPage(document_data.content[j].page)) >= 2

\* The positions i such that chunks i and i+1 come from the same page.
ConsecutivePairs ==
    {i \in 1..(Len(chunks) - 1) : chunks[i].metadata.page = chunks[i + 1].metadata.page}

\* The page of the document with number page_num.
PageIndex(page_num) ==
    CHOOSE j \in 1..Len(document_data.content) :
        document_data.content[j].page = page_num

(* C3: with overlap > 0, the last overlap sentences of a chunk (all of     *)
(* them if it has fewer) are, in order, the first sentences of the next    *)
(* chunk of the same page, whose text begins with them; with overlap = 0   *)
(* consecutive chunks of a page share no sentence occurrence.              *)
C3_OverlapPrefix ==
    called =>
        \A i \in ConsecutivePairs :
            LET this == chunks[i].sentence_idx
                next == chunks[i + 1].sentence_idx
                seed == LastN(this, chunk_overlap)
                j == PageIndex(chunks[i].metadata.page)
            IN  IF chunk_overlap > 0
                THEN /\ Len(next) > Len(seed)
                     /\ SubSeq(next, 1, Len(seed)) = seed
                     /\ SubSeq(chunks[i + 1].text, 1, Len(TextOf(j, seed)) + 1)
                          = TextOf(j, seed) \o " "
                ELSE Range(this) \cap Range(next) = {}

\* A chunk of two sentences is followed, on its page, by a chunk seeded with
\* only the last of them.
C3_Witness ==
    /\ called
    /\ chunk_overlap = 1
    /\ \E i \in ConsecutivePairs : Len(chunks[i].sentence_idx) >= 2

-----------------------------------------------------------------------------
(* Properties of the embedder.                                             *)

\* The batch (from 1) that position i of texts falls in.
BatchIndex(i) == ((i - 1) \div batch_size) + 1

\* The positions of texts that batch b holds.
PositionsOf(b) == {i \in 1..Len(texts) : BatchIndex(i) = b}

\* Whether the provider call of batch b is made and answers every item.
BatchSucceeds(b) ==
    /\ provider[b] = "ok"
    /\ ValidIndices(BatchOf(texts, batch_size, b)) # {}

\* Whether the provider call of batch b is made and raises.
BatchCallFails(b) ==
    /\ provider[b] = "fail"
    /\ ValidIndices(BatchOf(texts, batch_size, b)) # {}

(* C4: generate_embeddings_batch returns exactly len(texts) vectors, and   *)
(* the vector at position i belongs to the text at position i: the         *)
(* provider's vector for that text when the text is not empty after        *)
(* cleaning and its batch's call answered in full, a zero vector           *)
(* otherwise, whatever texts are empty and whatever calls fail or come     *)
(* back short.                                                             *)
C4_LengthAndOrder ==
    embedded.done =>
        /\ ~embedded.raised
        /\ Len(embedded.embeddings) = Len(texts)
        /\ \A i \in 1..Len(texts) :
               embedded.embeddings[i] =
                   IF _clean_text(texts[i]) # "" /\ BatchSucceeds(BatchIndex(i))
                   THEN ProviderVector(_clean_text(texts[i]))
                   ELSE ZeroVector

\* A batch mixing an empty and a non-empty text was embedded, another batch's
\* call failed.
C4_Witness ==
    /\ embedded.done
    /\ \E b \in 1..NumBatches(texts, batch_size) :
           /\ BatchSucceeds(b)
           /\ \E i \in PositionsOf(b) : _clean_text(texts[i]) = ""
           /\ \E i \in PositionsOf(b) : embedded.embeddings[i] # ZeroVector
    /\ \E b \in 1..NumBatches(texts, batch_size) : BatchCallFails(b)

(* C5: when the provider call of a batch fails, every output position of   *)
(* that batch is a zero vector of the configured dimension, every other    *)
(* position holds what it would hold had that call succeeded, and the call *)
(* to generate_embeddings_batch does not raise.                            *)
C5_BatchFailureIsolated ==
    embedded.done =>
        \A b \in 1..NumBatches(texts, batch_size) :
            BatchCallFails(b) =>
                LET other == generate_embeddings_batch(texts, batch_size,
                                 [provider EXCEPT ![b] = "ok"])
                IN  /\ ~embedded.raised
                    /\ Len(embedded.embeddings) = Len(other.embeddings)
                    /\ \A i \in PositionsOf(b) :
                           /\ embedded.embeddings[i] = ZeroVector
                           /\ Len(embedded.embeddings[i]) = EmbeddingDimension
                    /\ \A i \in (1..Len(texts)) \ PositionsOf(b) :
                           embedded.embeddings[i] = other.embeddings[i]

\* The call of a middle batch failed between two batches that were embedded.
C5_Witness ==
    /\ embedded.done
    /\ \E b \in 1..NumBatches(texts, batch_size) :
           /\ BatchCallFails(b)
           /\ \E i \in 1..Len(texts) :
                  BatchIndex(i) < b /\ embedded.embeddings[i] # ZeroVector
           /\ \E i \in 1..Len(texts) :
                  BatchIndex(i) > b /\ embedded.embeddings[i] # ZeroVector

-----------------------------------------------------------------------------
(* Properties of the pipeline.  last is the record of the latest call,     *)
(* confirmed tells whether some initialize() so far saw a successful      *)
(* health check and a 200, 201 or 409 answer to the creation request, and  *)
(* streak counts the latest consecutive initialize() calls that the store  *)
(* answered as a healthy store does.                                       *)

ConfirmingStatuses == {"200", "201", "409"}

\* C6, as stated: search_documents called while the pipeline is not
\* initialized returns an empty sequence and does not raise.
C6_SearchUninitializedReturnsEmpty ==
    (last.op = "search_documents" /\ ~last.was_initialized)
        => (last.raised = "none" /\ last.value = <<>>)

\* C6, amended: search_documents called while the pipeline is not initialized
\* raises the not-initialized RuntimeError; it returns nothing and invokes
\* neither the embedder nor the vector store.
C6_SearchUninitializedRaises ==
    (last.op = "search_documents" /\ ~last.was_initialized)
        => (/\ last.raised = NotInitializedError
            /\ last.calls = <<>>
            /\ last.value = NoCall.value)

\* A search made before any successful initialize().
C6_Witness ==
    /\ last.op = "search_documents"
    /\ ~last.was_initialized
    /\ ~initialized
    /\ last.raised # "none"

\* C7: process_pdf_file and process_pdf_bytes called while the pipeline is
\* not initialized raise the not-initialized error before the extractor, the
\* chunker, the embedder or the vector store is invoked, and return no
\* failure-result dictionary.
C7_IngestUninitializedFailsFast ==
    (last.op \in {"process_pdf_file", "process_pdf_bytes"} /\ ~last.was_initialized)
        => (/\ last.raised = NotInitializedError
            /\ last.calls = <<>>
            /\ last.sent = <<>>
            /\ last.value = NoCall.value)

\* An ingestion made before any successful initialize(), the server left as
\* it was.
C7_Witness ==
    /\ last.op = "process_pdf_bytes"
    /\ ~last.was_initialized
    /\ last.raised = NotInitializedError
    /\ store \in InitialStores

\* C8: the flag of the VectorStore and the flag of the pipeline are true only
\* if some earlier initialize() saw a successful health check and a created
\* or already-exists answer; an initialize() whose health check failed, whose
\* creation was rejected or that met an exception sets neither flag.
C8_FlagOnlyAfterConfirmation ==
    /\ [](vs_initialized => confirmed)
    /\ [](initialized => confirmed)
    /\ [][(/\ last'.op = "initialize"
           /\ \/ last'.health # "200"
              \/ last'.create_status \notin ConfirmingStatuses)
          => (/\ initialized' = initialized
              /\ vs_initialized' = vs_initialized
              /\ last'.value = FALSE)]_vars

\* An initialize() that found the store healthy and created the collection.
C8_Witness ==
    /\ last.op = "initialize"
    /\ last.value = TRUE
    /\ last.health = "200"
    /\ last.create_status = "201"
    /\ initialized
    /\ vs_initialized

\* C9: once the flag of the pipeline or of the VectorStore is true, no call
\* makes it false again.
C9_InitializedIsOneWay ==
    [][(initialized => initialized') /\ (vs_initialized => vs_initialized')]_vars

\* An initialize() that failed on a pipeline already initialized.
C9_Witness ==
    /\ last.op = "initialize"
    /\ last.was_initialized
    /\ last.value = FALSE
    /\ initialized
    /\ vs_initialized

\* C10: of two consecutive initialize() calls against a healthy store both
\* return success, the second on the answer 409, and the second leaves the
\* flags true and the server as the first left it, with one collection of
\* that name.
C10_InitializeIdempotent ==
    [][(/\ last.op = "initialize" /\ last.health = "200" /\ last.create = "serve"
        /\ last'.op = "initialize" /\ last'.health = "200" /\ last'.create = "serve")
       => (/\ last.value = TRUE
           /\ last'.value = TRUE
           /\ last'.create_status = "409"
           /\ initialized /\ initialized'
           /\ vs_initialized /\ vs_initialized'
           /\ store' = store
           /\ Cardinality({c \in store'.collections : c.name = CollectionName}) = 1)]_vars

\* Two initialize() calls in a row, the first of which created the collection.
C10_Witness ==
    /\ streak = 2
    /\ last.op = "initialize"
    /\ last.create_status = "409"
    /\ last.value = TRUE
    /\ \E c \in store.collections :
           c.name = CollectionName /\ c.dimension = EmbeddingDimension

-----------------------------------------------------------------------------
(* Properties of the VectorStore.  last is the record of the latest call:  *)
(* args its arguments, value what it returned, sent the insert requests it *)
(* made, insert and answer the server's answers to them.                   *)

\* C11: every sequence search_similar_chunks returns is sorted by
\* non-increasing score and holds only results with score >= threshold.
C11_SortedAndAboveThreshold ==
    last.op = "search_similar_chunks"
        => (/\ \A i, j \in 1..Len(last.value) :
                  i < j => last.value[i].score >= last.value[j].score
            /\ \A i \in 1..Len(last.value) : last.value[i].score >= last.args[2])

\* C12: search_similar_chunks never returns more than top_k results; with
\* top_k = 0 it returns the empty sequence.
C12_AtMostTopK ==
    last.op = "search_similar_chunks" => Len(last.value) <= last.args[1]

\* C13: store_document_chunks on an initialized store sends all items in one
\* insert request and returns True exactly when that request was answered
\* with 200 or 201; the value returned is a boolean, no count.
C13_AllOrNothing ==
    (last.op = "store_document_chunks" /\ last.was_initialized)
        => (/\ Len(last.sent) = 1
            /\ Len(last.sent[1]) = Len(last.args[1])
            /\ \A k \in 1..Len(last.args[1]) :
                  /\ last.sent[1][k].id = <<last.args[1][k].metadata.source,
                                            last.args[1][k].chunk_id>>
                  /\ last.sent[1][k].embedding = last.args[1][k].embedding
            /\ last.value \in BOOLEAN
            /\ last.value = (last.insert \in {"200", "201"}))

\* A call with two items whose insert request the server rejected.
C13_Witness ==
    /\ last.op = "store_document_chunks"
    /\ last.was_initialized
    /\ Len(last.args[1]) = 2
    /\ last.insert = "500"
    /\ last.value = FALSE

\* What search_similar_chunks returns when the store is reachable and
\* reports zero matches.
ZeroMatches ==
    search_similar_chunks(TRUE, 0, DefaultThreshold,
                          [status |-> "200", results |-> <<>>]).results

\* C14: what a search returns when the request failed differs from what it
\* returns when the store is reachable and reports zero matches.
C14_FailureDistinctFromEmpty ==
    (/\ last.op = "search_similar_chunks"
     /\ last.was_initialized
     /\ last.answer \in {"exc", "500"})
        => last.value # ZeroMatches

\* C15: once initialize(D) has succeeded the collection has dimension D, a
\* store_document_chunks call with an item of another length reports
\* failure, and every stored vector has length D.
C15_DimensionConsistency ==
    vs_initialized
        => (/\ \A c \in store.collections :
                  c.name = CollectionName => c.dimension = EmbeddingDimension
            /\ (/\ last.op = "store_document_chunks"
                /\ last.was_initialized
                /\ \E k \in 1..Len(last.args[1]) :
                      Len(last.args[1][k].embedding) # EmbeddingDimension)
                  => last.value = FALSE
            /\ \A v \in store.vectors : Len(v.embedding) = EmbeddingDimension)

-----------------------------------------------------------------------------
(* Properties of the pipeline's ingestion, search and status calls.        *)

Stages == <<"extract", "split", "embed", "store">>

\* The outcome of an ingestion that stopped after n stages with a message.
StoppedAfter(n, message) ==
    /\ last.calls = SubSeq(Stages, 1, n)
    /\ last.value = IngestFailure(message)
    /\ (n < 4 => last.sent = <<>>)

IsIngest == last.op \in {"process_pdf_file", "process_pdf_bytes"} /\ last.was_initialized

\* C16: ingestion on an initialized pipeline runs extraction, chunking,
\* embedding and upsert in that order; when the extraction raises, yields no
\* content or no chunks, or the store fails, no later stage runs, the result
\* has success = false with that stage's message, and the call does not raise.
C16_StagesInOrder ==
    IsIngest
        => (/\ last.raised = "none"
            /\ \E n \in 1..4 : last.calls = SubSeq(Stages, 1, n)
            /\ ~last.args[1].ok
                  => StoppedAfter(1, "Could not extract text from PDF")
            /\ (last.args[1].ok /\ last.args[1].doc.content = <<>>)
                  => StoppedAfter(1, "No text content extracted from PDF")
            /\ (/\ last.args[1].ok
                /\ last.args[1].doc.content # <<>>
                /\ split_text_into_chunks(last.args[1].doc, chunk_size,
                                          chunk_overlap) = <<>>)
                  => StoppedAfter(2, "No chunks created from document")
            /\ (last.calls = Stages /\ last.insert \notin {"200", "201"})
                  => StoppedAfter(4, "Failed to store chunks in vector database")
            /\ last.value.success => last.calls = Stages)

\* An ingestion of a document with a page but no sentence long enough.
C16_Witness ==
    /\ IsIngest
    /\ last.args[1].ok
    /\ last.args[1].doc.content # <<>>
    /\ last.calls = <<"extract", "split">>
    /\ ~last.value.success

\* C17: when the embedding batch fails during an ingestion on an initialized
\* pipeline, the upsert is still made, with zero vectors for the chunks of
\* the batch, and the result is a success exactly when the upsert is.
C17_DegradedEmbeddingStillStores ==
    (IsIngest /\ Len(last.calls) >= 3)
        => (/\ last.calls = Stages
            /\ Len(last.sent) = 1
            /\ Len(last.sent[1]) = Len(split_text_into_chunks(last.args[1].doc,
                                                              chunk_size, chunk_overlap))
            /\ last.provider \in {"fail", "short"}
                  => \A k \in 1..Len(last.sent[1]) :
                        last.sent[1][k].embedding = ZeroVector
            /\ last.provider = "ok"
                  => \A k \in 1..Len(last.sent[1]) :
                        last.sent[1][k].embedding # ZeroVector
            /\ last.value.success = (last.insert \in {"200", "201"}))

\* An ingestion whose provider call raised and whose upsert succeeded.
C17_Witness ==
    /\ IsIngest
    /\ last.provider = "fail"
    /\ last.calls = Stages
    /\ Len(last.sent[1]) >= 2
    /\ last.sent[1][1].embedding = ZeroVector
    /\ last.value.success

\* C18: on an initialized pipeline search_documents does not raise, and it
\* returns the empty sequence when embedding the query fails and when the
\* search request fails.
C18_SearchDegradesToEmpty ==
    (last.op = "search_documents" /\ last.was_initialized)
        => (/\ last.raised = "none"
            /\ (_clean_text(last.args[1]) # "" /\ last.provider \in {"fail", "short"})
                  => (last.value = <<>> /\ last.calls = <<"embed">>)
            /\ last.answer \in {"exc", "500"} => last.value = <<>>)

\* A search whose query embedding failed.
C18_Witness ==
    /\ last.op = "search_documents"
    /\ last.was_initialized
    /\ last.args[1] = "alpha"
    /\ last.provider = "fail"
    /\ last.value = <<>>

\* C19: get_pipeline_status does not raise in either state, leaves the flags
\* and the server as they are, reports the flag, and reports
\* available_collections exactly when the health probe succeeded.
C19_StatusAlwaysSafe ==
    /\ [](last.op = "get_pipeline_status"
            => (/\ last.raised = "none"
                /\ last.value.initialized = initialized
                /\ last.was_initialized = initialized
                /\ last.value.endee_healthy = (last.health = "200")
                /\ last.value.has_available_collections = (last.health = "200")
                /\ last.health # "200"
                      => (last.calls = <<"health">>
                          /\ last.value.available_collections = {})))
    /\ [][last'.op = "get_pipeline_status"
            => (/\ initialized' = initialized
                /\ vs_initialized' = vs_initialized
                /\ store' = store)]_vars

\* A status call on an initialized pipeline whose store is unreachable.
C19_Witness ==
    /\ last.op = "get_pipeline_status"
    /\ initialized
    /\ last.health = "exc"
    /\ last.value.initialized
    /\ ~last.value.endee_healthy

\* C20: generate_embedding on an empty or whitespace-only text returns the
\* zero vector of the configured dimension and makes no provider call.
C20_EmptyTextZeroVector ==
    (/\ last.op = "generate_embedding"
     /\ \A i \in 1..Len(last.args[1]) : Char(last.args[1], i) \in Whitespace)
        => (/\ last.raised = "none"
            /\ last.value = [d \in 1..EmbeddingDimension |-> 0]
            /\ last.calls = <<>>)

\* A whitespace-only text on a run whose provider would have raised.
C20_Witness ==
    /\ last.op = "generate_embedding"
    /\ last.args[1] = " \t"
    /\ last.provider = "fail"
    /\ last.value = ZeroVector

-----------------------------------------------------------------------------
(* Properties of one batch of the embedder.                                *)

\* The positions of texts in batch b whose text is not empty after cleaning.
ValidOf(b) == {i \in PositionsOf(b) : _clean_text(texts[i]) # ""}

\* The batches that hold a text that is not empty after cleaning.
CallingBatches == {b \in 1..NumBatches(texts, batch_size) : ValidOf(b) # {}}

\* The position in embedded.calls of the provider call of batch b.
CallOf(b) == Cardinality({c \in CallingBatches : c <= b})

\* The rank of position i among the valid positions of its batch.
RankOf(i) == Cardinality({v \in ValidOf(BatchIndex(i)) : v <= i})

\* C21: within a batch the provider is called at most once, with exactly the
\* texts that are not empty after cleaning, and not at all when there is
\* none; when the call answers, position i holds the provider's result for
\* the k-th input if text i is the k-th valid text, and a zero vector if text
\* i was filtered out.
C21_FilterBeforeProvider ==
    embedded.done =>
        /\ Len(embedded.calls) = Cardinality(CallingBatches)
        /\ \A b \in CallingBatches :
               /\ Len(embedded.calls[CallOf(b)]) = Cardinality(ValidOf(b))
               /\ \A i \in ValidOf(b) :
                      embedded.calls[CallOf(b)][RankOf(i)] = join(" ", split(texts[i]))
               /\ \A k \in 1..Len(embedded.calls[CallOf(b)]) :
                      embedded.calls[CallOf(b)][k] # ""
        /\ \A b \in 1..NumBatches(texts, batch_size) :
               provider[b] = "ok" =>
                   \A i \in PositionsOf(b) :
                       embedded.embeddings[i] =
                           IF i \in ValidOf(b)
                           THEN ProviderVector(embedded.calls[CallOf(b)][RankOf(i)])
                           ELSE [d \in 1..EmbeddingDimension |-> 0]

\* A batch whose first text was filtered out and whose second text received
\* the provider's first result, after a batch that made no call at all or
\* before one.
C21_Witness ==
    /\ embedded.done
    /\ \E b \in CallingBatches :
           /\ provider[b] = "ok"
           /\ \E i \in ValidOf(b) :
                  /\ RankOf(i) = 1
                  /\ i - 1 \in PositionsOf(b) \ ValidOf(b)
                  /\ embedded.embeddings[i] # embedded.embeddings[i - 1]
    /\ Len(embedded.calls) < NumBatches(texts, batch_size)

-----------------------------------------------------------------------------
(* The three-sentence scenario of the chunker.                             *)

\* The chunker was run on the scenario page with chunk_size 5 and overlap 1.
ScenarioRun ==
    called /\ document_data = ScenarioDoc /\ chunk_size = 5 /\ chunk_overlap = 1

(* C22: for the single page "ML is great. AI is powerful. Deep learning    *)
(* is a subset." with chunk_size 5 and overlap 1, split_text_into_chunks   *)
(* yields exactly 3 chunks, each holding a single sentence and at most 5   *)
(* words.                                                                  *)
C22_ScenarioThreeSingleSentenceChunks ==
    ScenarioRun =>
        /\ Len(chunks) = 3
        /\ \A i \in 1..Len(chunks) :
               /\ chunks[i].metadata.sentence_count = 1
               /\ Len(chunks[i].sentence_idx) = 1
               /\ WordCount(chunks[i].text) <= 5

\* What the code returns for the scenario: three chunks, the second and the
\* third opened with the sentence before them.
C22_ScenarioAsComputed ==
    ScenarioRun =>
        /\ Len(chunks) = 3
        /\ chunks[1].text = "ML is great"
        /\ chunks[2].text = "ML is great AI is powerful"
        /\ chunks[3].text = "AI is powerful Deep learning is a subset"
        /\ chunks[2].metadata.sentence_count = 2
        /\ chunks[3].metadata.sentence_count = 2

-----------------------------------------------------------------------------
(* The numbering of the chunks.                                            *)

\* The pages of the document that contribute no chunk.
PagesWithoutChunk ==
    {j \in 1..Len(document_data.content) :
        ChunksOfPage(document_data.content[j].page) = {}}

(* C23: the k-th chunk returned (counting from 0) has chunk_id k, so the   *)
(* ids are unique, increasing and without gaps across the whole document,  *)
(* also when some pages produce no chunk; metadata.chunk_index equals      *)
(* chunk_id; and metadata.page is the page of the sentences the chunk      *)
(* holds, the chunks following the order of the pages.                     *)
C23_ChunkIdsSequential ==
    called =>
        /\ \A i \in 1..Len(chunks) :
               /\ chunks[i].chunk_id = i - 1
               /\ chunks[i].metadata.chunk_index = chunks[i].chunk_id
               /\ \E j \in 1..Len(document_data.content) :
                      /\ document_data.content[j].page = chunks[i].metadata.page
                      /\ \A n \in 1..Len(chunks[i].sentence_idx) :
                             chunks[i].sentence_idx[n] \in 1..Len(KeptSentences(j))
                      /\ chunks[i].text = TextOf(j, chunks[i].sentence_idx)
                      /\ chunks[i].metadata.sentence_count
                           = Len(chunks[i].sentence_idx)
        /\ \A i \in 1..(Len(chunks) - 1) :
               PageIndex(chunks[i].metadata.page)
                 <= PageIndex(chunks[i + 1].metadata.page)

\* The first page produced no chunk and the second one two chunks, numbered
\* 0 and 1.
C23_Witness ==
    /\ called
    /\ 1 \in PagesWithoutChunk
    /\ Len(document_data.content) = 2
    /\ Len(chunks) >= 2
    /\ chunks[1].metadata.page = 2
    /\ chunks[2].chunk_id = 1

-----------------------------------------------------------------------------
(* Properties of generate_embeddings_for_chunks.                           *)

\* The items the enrichment adds to a copy.
EmbeddingFields == {"embedding", "embedding_model", "embedding_dimension"}

\* generate_embeddings_for_chunks has returned.
Enriched == last.op = "generate_embeddings_for_chunks"

(* C24: generate_embeddings_for_chunks does not modify its input chunks:   *)
(* after the call the caller's list is what it was, with no embedding,     *)
(* embedding_model or embedding_dimension item; these appear only on the   *)
(* returned copies, which are one per input chunk, in the same order, each *)
(* with the items of its input chunk unchanged.                            *)
C24_InputChunksUntouched ==
    Enriched =>
        /\ chunks = last.args[1]
        /\ \A k \in 1..Len(chunks) : DOMAIN chunks[k] \cap EmbeddingFields = {}
        /\ last.raised = "none"
        /\ Len(last.value) = Len(chunks)
        /\ \A k \in 1..Len(last.value) :
               /\ DOMAIN last.value[k] = DOMAIN chunks[k] \cup EmbeddingFields
               /\ \A key \in DOMAIN chunks[k] : last.value[k][key] = chunks[k][key]
               /\ last.value[k].embedding_model = EmbeddingModel
               /\ last.value[k].embedding_dimension = Len(last.value[k].embedding)
               /\ Len(last.value[k].embedding) = EmbeddingDimension

\* Three chunks were enriched with the vectors of an answering provider.
C24_Witness ==
    /\ Enriched
    /\ Len(last.args[1]) = 3
    /\ last.provider = "ok"
    /\ last.value[1].embedding # last.value[3].embedding
    /\ last.value[3].chunk_id = 2

-----------------------------------------------------------------------------
(* Properties of interleaved initialize() calls.                           *)

\* The callers whose initialize() has returned.
Returned == {t \in Threads : threads[t].pc = "done"}

\* The callers that found the store healthy: the health check answered 200
\* and the create request was served.
ServedHealthy ==
    {t \in Threads : threads[t].health = "200" /\ threads[t].create = "serve"}

(* C25: concurrent calls to initialize() converge.  In any interleaving of *)
(* the two calls, a call that found the store healthy returns success;     *)
(* once a call has returned success both flags are true, whatever the      *)
(* other call does and in whatever order they complete; and when both      *)
(* calls have returned against a healthy store, both returned success,     *)
(* initialized is true and the collection exists exactly once.             *)
C25_ConcurrentInitializeConverges ==
    /\ \A t \in Returned :
           /\ t \in ServedHealthy => threads[t].result
           /\ threads[t].result => initialized /\ vs_initialized
    /\ (Returned = Threads /\ ServedHealthy = Threads) =>
           /\ \A t \in Threads : threads[t].result
           /\ initialized
           /\ vs_initialized
           /\ Cardinality({c \in store.collections : c.name = CollectionName}) = 1

\* Both calls returned success against a server without the collection, one
\* having created it and the other having been told that it exists.
C25_Witness ==
    /\ Returned = Threads
    /\ threads["A"].result /\ threads["B"].result
    /\ threads["A"].create_status = "409"
    /\ threads["B"].create_status = "201"
    /\ initialized

-----------------------------------------------------------------------------
(* The chunker on size and overlap edge cases.                             *)

\* The chunk ids handed out, as a set.
ChunkIds == {chunks[i].chunk_id : i \in 1..Len(chunks)}

(* C26: the chunker never fails because of size or overlap edge cases.     *)
(* For every document and every chunk_size and overlap tried (a sentence   *)
(* longer than chunk_size and an overlap larger than the number of         *)
(* buffered sentences among them) split_text_into_chunks returns a list of *)
(* chunks; a page with zero qualifying sentences contributes zero chunks   *)
(* and consumes no chunk id, and a page with a qualifying sentence         *)
(* contributes at least one chunk.                                         *)
C26_EdgeCasesNeverFail ==
    called =>
        /\ \A j \in 1..Len(document_data.content) :
               (KeptSentences(j) = <<>>) <=> (j \in PagesWithoutChunk)
        /\ ChunkIds = 0..(Len(chunks) - 1)
        /\ \A i \in 1..Len(chunks) :
               /\ chunks[i].text # ""
               /\ chunks[i].metadata.sentence_count >= 1
               /\ chunks[i].chunk_id
                    = Cardinality({i2 \in 1..Len(chunks) :
                          PageIndex(chunks[i2].metadata.page)
                            < PageIndex(chunks[i].metadata.page)})
                      + Cardinality({i2 \in ChunksOfPage(chunks[i].metadata.page) :
                                       i2 < i})

\* After a page without a qualifying sentence, a page was chunked with a
\* chunk_size below its shortest sentence and an overlap of two sentences
\* while one was buffered: chunk 0 is the oversized first sentence.
C26_Witness ==
    /\ called
    /\ chunk_size = 2
    /\ chunk_overlap = 2
    /\ 1 \in PagesWithoutChunk
    /\ Len(chunks) = 2
    /\ chunks[1].chunk_id = 0
    /\ chunks[1].metadata.page = 2
    /\ WordCount(chunks[1].text) > chunk_size
    /\ chunks[2].metadata.sentence_count = 2

-----------------------------------------------------------------------------
(* The order of the requests of VectorStore.initialize.                    *)

(* C27: in VectorStore.initialize the liveness check precedes collection   *)
(* creation.  The health check is the first request of every call; a       *)
(* create-collection request is issued only after the health check of the  *)
(* same call returned healthy; and when the health check fails the call    *)
(* returns failure, issues no create-collection request and leaves the     *)
(* initialized flag (and the server) unchanged.                            *)
C27_HealthCheckBeforeCreate ==
    [][last'.op = "initialize" =>
          /\ last'.calls # <<>>
          /\ last'.calls[1] = "health"
          /\ \A n \in 1..Len(last'.calls) :
                 last'.calls[n] = "create" => (n = 2 /\ last'.health = "200")
          /\ last'.health # "200" =>
                 /\ last'.value = FALSE
                 /\ last'.calls = <<"health">>
                 /\ last'.create_status = "none"
                 /\ vs_initialized' = vs_initialized
                 /\ store' = store]_vars

\* A call whose health check failed returned failure on a server that would
\* have served the create request: the collection was not created and the
\* flag stayed unset.
C27_Witness ==
    /\ last.op = "initialize"
    /\ last.health \in {"503", "exc"}
    /\ last.create = "serve"
    /\ last.value = FALSE
    /\ last.calls = <<"health">>
    /\ store.collections = {}
    /\ ~vs_initialized

-----------------------------------------------------------------------------
(* What an ingestion sends to the store.                                   *)

\* Whether the insert requests sent are one request carrying one entry per
\* chunk of cs, in the order of cs.
CarriesEveryChunk(sent, cs) ==
    /\ Len(sent) = 1
    /\ Len(sent[1]) = Len(cs)
    /\ \A k \in 1..Len(cs) :
           /\ sent[1][k].id = <<cs[k].metadata.source, cs[k].chunk_id>>
           /\ sent[1][k].metadata.text = cs[k].text
           /\ sent[1][k].metadata.page = cs[k].metadata.page
           /\ sent[1][k].metadata.chunk_index = cs[k].metadata.chunk_index
           /\ Len(sent[1][k].embedding) = EmbeddingDimension

(* C28: no chunk is dropped between stages.  Whenever an ingestion reports *)
(* success, exactly one insert request was sent to the store, it carried   *)
(* exactly one vector per chunk produced by the chunker, in chunk order,   *)
(* the reported chunks_stored equals the reported total_chunks, which is   *)
(* the number of chunks, and the server holds every entry sent.            *)
C28_NoChunkDropped ==
    (IsIngest /\ last.raised = "none" /\ last.value.success) =>
        /\ CarriesEveryChunk(last.sent,
               split_text_into_chunks(last.args[1].doc, chunk_size, chunk_overlap))
        /\ last.value.total_chunks = Len(last.sent[1])
        /\ last.value.chunks_stored = last.value.total_chunks
        /\ \A k \in 1..Len(last.sent[1]) : last.sent[1][k] \in store.vectors

\* A successful ingestion of the three-sentence page, sent as several
\* entries in one request.
C28_Witness ==
    /\ IsIngest
    /\ last.raised = "none"
    /\ last.value.success
    /\ last.value.chunks_stored >= 2
    /\ Len(last.sent) = 1
    /\ last.sent[1][2].id[2] = 1

-----------------------------------------------------------------------------
(* The two initialized flags.                                              *)

\* The last call was a search that passed the pipeline's guard.
IsSearch == last.op = "search_documents" /\ last.was_initialized

(* C29: in every reachable state of a RAGPipeline, pipeline.initialized =  *)
(* true implies vector_store.initialized = true, so an ingestion or a      *)
(* search that passes the pipeline's guard is never rejected by the        *)
(* VectorStore's own not-initialized guard: an ingestion that reaches the  *)
(* store stage sends its insert request, and a search whose query was      *)
(* embedded sends its search request.                                      *)
C29_PipelineFlagImpliesStoreFlag ==
    /\ initialized => vs_initialized
    /\ (IsIngest /\ last.calls = Stages) => Len(last.sent) = 1
    /\ IsSearch =>
           /\ last.raised = "none"
           /\ IF generate_embedding(last.args[1], last.provider).raised
              THEN last.calls = <<"embed">>
              ELSE last.calls = <<"embed", "search">>

\* A search on an initialized pipeline reached the server.
C29_Witness ==
    /\ initialized
    /\ vs_initialized
    /\ IsSearch
    /\ last.calls = <<"embed", "search">>
    /\ last.value # <<>>

-----------------------------------------------------------------------------
(* The sentences of a chunk.                                               *)

\* The position, in its page, of the last sentence of chunk i.
LastSentence(i) == chunks[i].sentence_idx[Len(chunks[i].sentence_idx)]

(* C30: every chunk is a contiguous run of the kept sentences of a single  *)
(* page.  The sentences of a chunk are consecutive sentences of the page   *)
(* named in its metadata and of no other page (the first chunk of a page   *)
(* starts at the page's first sentence, nothing being carried over from    *)
(* the page before); the index of the last sentence of successive chunks   *)
(* of a page strictly increases; and a page with n kept sentences yields   *)
(* at most n chunks.                                                       *)
C30_ContiguousRunOfOnePage ==
    called =>
        \A j \in 1..Len(document_data.content) :
            LET mine == ChunksOfPage(document_data.content[j].page)
                n == Len(KeptSentences(j))
            IN  /\ \A i \in mine :
                       LET idx == chunks[i].sentence_idx
                       IN  /\ Len(idx) >= 1
                           /\ idx[1] \in 1..n
                           /\ \A m \in 1..Len(idx) : idx[m] = idx[1] + m - 1
                           /\ idx[Len(idx)] <= n
                           /\ chunks[i].text
                                = join(" ", SubSeq(KeptSentences(j), idx[1],
                                                   idx[Len(idx)]))
                           /\ (\A i2 \in mine : i <= i2) => idx[1] = 1
                /\ \A i \in mine :
                       (i + 1 \in mine) => LastSentence(i) < LastSentence(i + 1)
                /\ \A i \in mine : \A i2 \in 1..Len(chunks) :
                       (i < i2 /\ i2 \notin mine) =>
                           \A i3 \in mine : i3 < i2
                /\ Cardinality(mine) <= n

\* Two pages of kept sentences were chunked with overlap: the second page
\* gave two chunks, the later one seeded with a sentence of that page and
\* none of the first page.
C30_Witness ==
    /\ called
    /\ chunk_overlap > 0
    /\ Len(document_data.content) = 2
    /\ ChunksOfPage(1) # {}
    /\ ChunksOfPage(2) # {}
    /\ \E i \in ChunksOfPage(2) :
           /\ i + 1 \in ChunksOfPage(2)
           /\ chunks[i].sentence_idx = <<1>>
           /\ chunks[i + 1].sentence_idx = <<1, 2>>

=============================================================================
